---- MODULE Spec2Model ----
(***************************************************************************)
(* Model of the recursive-descent parser of src/parse.py (class Parser).   *)
(* The call stack of the mutually recursive productions is explicit: the   *)
(* variable stack holds one label per active call, the last element being  *)
(* the position of the running procedure.  One action models one block of  *)
(* a procedure between two calls of a production (or of nextToken).        *)
(***************************************************************************)
EXTENDS Integers, Sequences, FiniteSets, TLC

\* ------------------------------------------------------------------ bounds
\* Number of lines (chunks of tokens) the lexer may still produce before EOF.
MaxChunks == 3

\* ------------------------------------------------------------------ tokens
Tok(k, t) == [kind |-> k, text |-> t]
KW(k) == Tok(k, k)

NEWLINE == Tok("NEWLINE", "\n")
EOFTok == Tok("EOF", "")
Num(t) == Tok("NUMBER", t)
Id(t) == Tok("IDENT", t)
Str(t) == Tok("STRING", t)
EQ == Tok("EQ", "=")
PLUS == Tok("PLUS", "+")
MINUS == Tok("MINUS", "-")
ASTERISK == Tok("ASTERISK", "*")
SLASH == Tok("SLASH", "/")
EQEQ == Tok("EQEQ", "==")
NOTEQ == Tok("NOTEQ", "!=")
LT == Tok("LT", "<")
LTEQ == Tok("LTEQ", "<=")
GT == Tok("GT", ">")
GTEQ == Tok("GTEQ", ">=")

\* The source lines the lexer may deliver, as token sequences: well-formed
\* statements and statements with a defect.
Lines ==
  { <<NEWLINE>>,
    <<KW("YAP"), Id("a"), NEWLINE>>,
    <<KW("LABEL"), Id("a"), NEWLINE>>,
    <<KW("GOTO"), Id("a"), NEWLINE>>,
    <<KW("GOTO"), Id("b")>>,
    <<KW("NOCAP"), Id("a"), EQ, Id("a"), NEWLINE>>,
    <<KW("NOCAP"), Id("a"), EQ, Num("3"), PLUS, Num("4"), ASTERISK, Num("2"), NEWLINE>>,
    <<KW("NOCAP"), Id("b"), EQ, MINUS, Id("a"), SLASH, Num("2"), NEWLINE>>,
    <<KW("PREACH"), Id("a"), NEWLINE>>,
    <<KW("IF"), Num("1"), LT, Num("2"), EQEQ, Num("1"), KW("THEN"), NEWLINE>>,
    <<KW("IF"), Num("1"), KW("THEN"), NEWLINE>>,
    <<KW("IF"), Num("1"), GT, KW("THEN"), NEWLINE>>,
    <<KW("ENDIF"), NEWLINE>>,
    <<KW("ENDIF")>>,
    <<KW("COOKING"), Id("a"), GTEQ, Num("2"), KW("RUNITBACK"), NEWLINE>>,
    <<KW("COOKING"), Num("1"), KW("RUNITBACK"), NEWLINE>>,
    <<KW("COOKED"), NEWLINE>> }

\* Single tokens, delivered on their own between the lines.
Loose ==
  { <<t>> : t \in { Num("1"), Id("a"), Str("s"), EQ, PLUS, ASTERISK, LTEQ, NOTEQ,
                    KW("YAP"), KW("LABEL"), KW("NOCAP"),
                    KW("IF"), KW("THEN"), KW("RUNITBACK") } }

Chunks == Lines \cup Loose

VARIABLES
  lex,            \* the lexer: tokens of the line being delivered, lines used, EOF seen
  curToken,       \* Parser.curToken
  peekToken,      \* Parser.peekToken
  consumed,       \* the tokens the parser advanced past, in order
  symbols,        \* Parser.symbols
  labelsDeclared, \* Parser.labelsDeclared
  labelsGotoed,   \* Parser.labelsGotoed
  header,         \* Emitter.header, one element per append
  body,           \* Emitter.code, one element per append
  stack,          \* the call stack of productions, innermost last
  err             \* the message of abort(), "" while none was raised

lexvars == <<lex, curToken, peekToken, consumed>>
sets == <<symbols, labelsDeclared, labelsGotoed>>
out == <<header, body>>
vars == <<lex, curToken, peekToken, consumed, symbols, labelsDeclared,
          labelsGotoed, header, body, stack, err>>

\* ------------------------------------------------------------------- lexer
\* Lexer.getToken: the next token of the stream and the lexer left behind.
\* Once EOF was delivered it is delivered forever.
GetToken(l) ==
  IF l.buf # <<>>
    THEN { [tok |-> Head(l.buf), lex |-> [l EXCEPT !.buf = Tail(@)]] }
    ELSE { [tok |-> EOFTok, lex |-> [l EXCEPT !.eof = TRUE]] }
         \cup (IF ~l.eof /\ l.n < MaxChunks
                 THEN { [tok |-> Head(c),
                         lex |-> [buf |-> Tail(c), n |-> l.n + 1, eof |-> FALSE]]
                        : c \in Chunks }
                 ELSE {})

\* ----------------------------------------------------------------- emitter
Emit(region, code) == Append(region, code)
EmitLine(region, code) == Append(region, code \o "\n")
HeaderLine(region, code) == Append(region, code \o "\n")

\* ------------------------------------------------------- token primitives
CheckToken(kind) == kind = curToken.kind

NextToken ==
  \E r \in GetToken(lex) :
    /\ curToken' = peekToken
    /\ peekToken' = r.tok
    /\ lex' = r.lex
    /\ consumed' = Append(consumed, curToken)

IsComparisonOperator ==
  \/ CheckToken("GT")
  \/ CheckToken("GTEQ")
  \/ CheckToken("LT")
  \/ CheckToken("LTEQ")
  \/ CheckToken("EQEQ")
  \/ CheckToken("NOTEQ")

\* abort(message): the process exits; the cursor and the call stack stay as
\* they were when it was raised.
Abort(message) ==
  /\ err' = message
  /\ UNCHANGED <<lexvars, stack>>

MatchError(kind) == "Expected " \o kind \o ", got " \o curToken.kind

\* ------------------------------------------------------------ call stack
Top == stack[Len(stack)]
At(l) == err = "" /\ stack # <<>> /\ Top = l
Goto(l) == stack' = [stack EXCEPT ![Len(stack)] = l]
Call(callee, ret) == stack' = Append([stack EXCEPT ![Len(stack)] = ret], callee)
Return == stack' = SubSeq(stack, 1, Len(stack) - 1)

\* -------------------------------------------------------------------- Init
\* The state after Parser.__init__: empty sets, two tokens pulled.
Init ==
  \E r1 \in GetToken([buf |-> <<>>, n |-> 0, eof |-> FALSE]) :
    \E r2 \in GetToken(r1.lex) :
      /\ curToken = r1.tok
      /\ peekToken = r2.tok
      /\ lex = r2.lex
      /\ consumed = <<>>
      /\ symbols = {}
      /\ labelsDeclared = {}
      /\ labelsGotoed = {}
      /\ header = <<>>
      /\ body = <<>>
      /\ stack = <<"program">>
      /\ err = ""

\* ----------------------------------------------------------------- program
Program ==
  /\ At("program")
  /\ header' = HeaderLine(HeaderLine(header, "#include <stdio.h>"), "int main(void) {")
  /\ Goto("prog_skipnl")
  /\ UNCHANGED <<lexvars, sets, body, err>>

ProgSkipNl ==
  /\ At("prog_skipnl")
  /\ IF CheckToken("NEWLINE")
       THEN NextToken /\ UNCHANGED stack
       ELSE Goto("prog_loop") /\ UNCHANGED lexvars
  /\ UNCHANGED <<sets, out, err>>

ProgLoop ==
  /\ At("prog_loop")
  /\ IF ~CheckToken("EOF")
       THEN Call("statement", "prog_loop") /\ UNCHANGED body
       ELSE /\ body' = EmitLine(EmitLine(body, "return 0;"), "}")
            /\ Goto("prog_check")
  /\ UNCHANGED <<lexvars, sets, header, err>>

ProgCheck ==
  /\ At("prog_check")
  /\ IF labelsGotoed \subseteq labelsDeclared
       THEN stack' = <<>> /\ UNCHANGED <<lexvars, err>>
       ELSE \E label \in labelsGotoed \ labelsDeclared :
              Abort("Attempting to GOTO to undeclared label: " \o label)
  /\ UNCHANGED <<sets, out>>

\* --------------------------------------------------------------- statement
StatementKinds == {"YAP", "IF", "COOKING", "LABEL", "GOTO", "NOCAP", "PREACH"}

StmtYap ==
  /\ At("statement") /\ CheckToken("YAP")
  /\ NextToken
  /\ Goto("yap_operand")
  /\ UNCHANGED <<sets, out, err>>

YapOperand ==
  /\ At("yap_operand")
  /\ IF CheckToken("STRING")
       THEN /\ body' = EmitLine(body, "printf(\"" \o curToken.text \o "\\n\");")
            /\ NextToken
            /\ Call("nl", "stmt_end")
       ELSE /\ body' = Emit(body, "printf(\"%" \o ".2f\\n\"" \o ", (float)(")
            /\ Call("expression", "yap_close")
            /\ UNCHANGED lexvars
  /\ UNCHANGED <<sets, header, err>>

YapClose ==
  /\ At("yap_close")
  /\ body' = EmitLine(body, "));")
  /\ Call("nl", "stmt_end")
  /\ UNCHANGED <<lexvars, sets, header, err>>

StmtIf ==
  /\ At("statement") /\ CheckToken("IF")
  /\ NextToken
  /\ body' = Emit(body, "if(")
  /\ Call("comparison", "if_then")
  /\ UNCHANGED <<sets, header, err>>

IfThen ==
  /\ At("if_then")
  /\ IF ~CheckToken("THEN")
       THEN Abort(MatchError("THEN"))
       ELSE NextToken /\ Call("nl", "if_open") /\ UNCHANGED err
  /\ UNCHANGED <<sets, out>>

IfOpen ==
  /\ At("if_open")
  /\ body' = EmitLine(body, ") {")
  /\ Goto("if_body")
  /\ UNCHANGED <<lexvars, sets, header, err>>

\* IfBody without the closing line of the block.
IfBodyNoClose ==
  /\ At("if_body")
  /\ IF ~CheckToken("ENDIF")
       THEN Call("statement", "if_body") /\ UNCHANGED <<lexvars, body>>
       ELSE /\ NextToken
            /\ Call("nl", "stmt_end")
            /\ UNCHANGED body
  /\ UNCHANGED <<sets, header, err>>

IfBody ==
  /\ At("if_body")
  /\ IF ~CheckToken("ENDIF")
       THEN Call("statement", "if_body") /\ UNCHANGED <<lexvars, body>>
       ELSE /\ NextToken
            /\ body' = EmitLine(body, "}")
            /\ Call("nl", "stmt_end")
  /\ UNCHANGED <<sets, header, err>>

StmtCooking ==
  /\ At("statement") /\ CheckToken("COOKING")
  /\ NextToken
  /\ body' = Emit(body, "while(")
  /\ Call("comparison", "cooking_sep")
  /\ UNCHANGED <<sets, header, err>>

CookingSep ==
  /\ At("cooking_sep")
  /\ IF ~CheckToken("RUNITBACK")
       THEN Abort(MatchError("RUNITBACK"))
       ELSE NextToken /\ Call("nl", "cooking_open") /\ UNCHANGED err
  /\ UNCHANGED <<sets, out>>

CookingOpen ==
  /\ At("cooking_open")
  /\ body' = EmitLine(body, ") {")
  /\ Goto("cooking_body")
  /\ UNCHANGED <<lexvars, sets, header, err>>

CookingBody ==
  /\ At("cooking_body")
  /\ IF ~CheckToken("COOKED")
       THEN Call("statement", "cooking_body") /\ UNCHANGED <<lexvars, body>>
       ELSE /\ NextToken
            /\ body' = EmitLine(body, "}")
            /\ Call("nl", "stmt_end")
  /\ UNCHANGED <<sets, header, err>>

StmtLabel ==
  /\ At("statement") /\ CheckToken("LABEL")
  /\ NextToken
  /\ Goto("label_ident")
  /\ UNCHANGED <<sets, out, err>>

\* LabelIdent without the test for an earlier declaration.
LabelIdentNoCheck ==
  /\ At("label_ident")
  /\ labelsDeclared' = labelsDeclared \cup {curToken.text}
  /\ body' = EmitLine(body, curToken.text \o ":")
  /\ IF ~CheckToken("IDENT")
       THEN Abort(MatchError("IDENT"))
       ELSE NextToken /\ Call("nl", "stmt_end") /\ UNCHANGED err
  /\ UNCHANGED <<symbols, labelsGotoed, header>>

LabelIdent ==
  /\ At("label_ident")
  /\ IF curToken.text \in labelsDeclared
       THEN /\ Abort("Label already exists: " \o curToken.text)
            /\ UNCHANGED <<labelsDeclared, body>>
       ELSE /\ labelsDeclared' = labelsDeclared \cup {curToken.text}
            /\ body' = EmitLine(body, curToken.text \o ":")
            /\ IF ~CheckToken("IDENT")
                 THEN Abort(MatchError("IDENT"))
                 ELSE NextToken /\ Call("nl", "stmt_end") /\ UNCHANGED err
  /\ UNCHANGED <<symbols, labelsGotoed, header>>

StmtGoto ==
  /\ At("statement") /\ CheckToken("GOTO")
  /\ NextToken
  /\ Goto("goto_ident")
  /\ UNCHANGED <<sets, out, err>>

GotoLine(text) == "goto" \o text \o ";"

\* GotoIdent validating the target at the jump instead of at the end.
GotoIdentEager ==
  /\ At("goto_ident")
  /\ IF curToken.text \notin labelsDeclared
       THEN /\ Abort("Attempting to GOTO to undeclared label: " \o curToken.text)
            /\ UNCHANGED <<labelsGotoed, body>>
       ELSE /\ labelsGotoed' = labelsGotoed \cup {curToken.text}
            /\ body' = EmitLine(body, GotoLine(curToken.text))
            /\ IF ~CheckToken("IDENT")
                 THEN Abort(MatchError("IDENT"))
                 ELSE NextToken /\ Call("nl", "stmt_end") /\ UNCHANGED err
  /\ UNCHANGED <<symbols, labelsDeclared, header>>

GotoIdent ==
  /\ At("goto_ident")
  /\ labelsGotoed' = labelsGotoed \cup {curToken.text}
  /\ body' = EmitLine(body, GotoLine(curToken.text))
  /\ IF ~CheckToken("IDENT")
       THEN Abort(MatchError("IDENT"))
       ELSE NextToken /\ Call("nl", "stmt_end") /\ UNCHANGED err
  /\ UNCHANGED <<symbols, labelsDeclared, header>>

StmtNocap ==
  /\ At("statement") /\ CheckToken("NOCAP")
  /\ NextToken
  /\ Goto("nocap_ident")
  /\ UNCHANGED <<sets, out, err>>

\* Declare emitting the header line whether or not the name is known.
DeclareAlways(text) ==
  /\ symbols' = symbols \cup {text}
  /\ header' = HeaderLine(header, "float " \o text \o ";")

\* "if text not in symbols: add it and declare it in the header", shared by
\* the NOCAP and the PREACH branch.
Declare(text) ==
  IF text \notin symbols
    THEN /\ symbols' = symbols \cup {text}
         /\ header' = HeaderLine(header, "float " \o text \o ";")
    ELSE UNCHANGED <<symbols, header>>

NocapIdent ==
  /\ At("nocap_ident")
  /\ Declare(curToken.text)
  /\ body' = Emit(body, curToken.text \o " = ")
  /\ IF ~CheckToken("IDENT")
       THEN Abort(MatchError("IDENT"))
       ELSE NextToken /\ Goto("nocap_eq") /\ UNCHANGED err
  /\ UNCHANGED <<labelsDeclared, labelsGotoed>>

NocapEq ==
  /\ At("nocap_eq")
  /\ IF ~CheckToken("EQ")
       THEN Abort(MatchError("EQ"))
       ELSE NextToken /\ Call("expression", "nocap_close") /\ UNCHANGED err
  /\ UNCHANGED <<sets, out>>

NocapClose ==
  /\ At("nocap_close")
  /\ body' = EmitLine(body, ";")
  /\ Call("nl", "stmt_end")
  /\ UNCHANGED <<lexvars, sets, header, err>>

StmtPreach ==
  /\ At("statement") /\ CheckToken("PREACH")
  /\ NextToken
  /\ Goto("preach_ident")
  /\ UNCHANGED <<sets, out, err>>

ScanfOpen(text) == "if(0 == scanf(\"%" \o "f\", &" \o text \o ")) {"

PreachIdent ==
  /\ At("preach_ident")
  /\ Declare(curToken.text)
  /\ body' = EmitLine(EmitLine(Emit(EmitLine(EmitLine(body,
                 ScanfOpen(curToken.text)),
                 curToken.text \o " = 0;"),
                 "scanf(\"%"),
                 "*s\");"),
                 "}")
  /\ IF ~CheckToken("IDENT")
       THEN Abort(MatchError("IDENT"))
       ELSE NextToken /\ Call("nl", "stmt_end") /\ UNCHANGED err
  /\ UNCHANGED <<labelsDeclared, labelsGotoed>>

\* StmtInvalid returning to the caller instead of aborting.
StmtInvalidIgnore ==
  /\ At("statement") /\ curToken.kind \notin StatementKinds
  /\ Return
  /\ UNCHANGED <<lexvars, sets, out, err>>

StmtInvalid ==
  /\ At("statement") /\ curToken.kind \notin StatementKinds
  /\ Abort("Invalid statement at " \o curToken.text \o " (" \o curToken.kind \o ")")
  /\ UNCHANGED <<sets, out>>

\* statement() returns once its closing nl() has returned.
StmtEnd ==
  /\ At("stmt_end")
  /\ Return
  /\ UNCHANGED <<lexvars, sets, out, err>>

\* ---------------------------------------------------------------------- nl
Nl ==
  /\ At("nl")
  /\ IF ~CheckToken("NEWLINE")
       THEN Abort(MatchError("NEWLINE"))
       ELSE NextToken /\ Goto("nl_loop") /\ UNCHANGED err
  /\ UNCHANGED <<sets, out>>

\* NlLoop without the loop: further newlines are left in the stream.
NlLoopOnce ==
  /\ At("nl_loop")
  /\ Return
  /\ UNCHANGED <<lexvars, sets, out, err>>

NlLoop ==
  /\ At("nl_loop")
  /\ IF CheckToken("NEWLINE")
       THEN NextToken /\ UNCHANGED stack
       ELSE Return /\ UNCHANGED lexvars
  /\ UNCHANGED <<sets, out, err>>

\* -------------------------------------------------------------- comparison
Comparison ==
  /\ At("comparison")
  /\ Call("expression", "cmp_first")
  /\ UNCHANGED <<lexvars, sets, out, err>>

\* CmpFirst with the first operator optional.
CmpFirstOptional ==
  /\ At("cmp_first")
  /\ IF IsComparisonOperator
       THEN /\ body' = Emit(body, curToken.text)
            /\ NextToken
            /\ Call("expression", "cmp_loop")
       ELSE Return /\ UNCHANGED <<lexvars, body>>
  /\ UNCHANGED <<sets, header, err>>

CmpFirst ==
  /\ At("cmp_first")
  /\ IF IsComparisonOperator
       THEN /\ body' = Emit(body, curToken.text)
            /\ NextToken
            /\ Call("expression", "cmp_loop")
            /\ UNCHANGED err
       ELSE /\ Abort("Expected comparison operator at: " \o curToken.text)
            /\ UNCHANGED body
  /\ UNCHANGED <<sets, header>>

\* CmpLoop consuming a further operator without emitting it.
CmpLoopNoEmit ==
  /\ At("cmp_loop")
  /\ IF IsComparisonOperator
       THEN /\ NextToken
            /\ Call("expression", "cmp_loop")
            /\ UNCHANGED body
       ELSE Return /\ UNCHANGED <<lexvars, body>>
  /\ UNCHANGED <<sets, header, err>>

CmpLoop ==
  /\ At("cmp_loop")
  /\ IF IsComparisonOperator
       THEN /\ body' = Emit(body, curToken.text)
            /\ NextToken
            /\ Call("expression", "cmp_loop")
       ELSE Return /\ UNCHANGED <<lexvars, body>>
  /\ UNCHANGED <<sets, header, err>>

\* ------------------------------------------- expression, term, unary, primary
Expression ==
  /\ At("expression")
  /\ Call("term", "expr_loop")
  /\ UNCHANGED <<lexvars, sets, out, err>>

ExprLoop ==
  /\ At("expr_loop")
  /\ IF CheckToken("PLUS") \/ CheckToken("MINUS")
       THEN /\ body' = Emit(body, curToken.text)
            /\ NextToken
            /\ Call("term", "expr_loop")
       ELSE Return /\ UNCHANGED <<lexvars, body>>
  /\ UNCHANGED <<sets, header, err>>

Term ==
  /\ At("term")
  /\ Call("unary", "term_loop")
  /\ UNCHANGED <<lexvars, sets, out, err>>

TermLoop ==
  /\ At("term_loop")
  /\ IF CheckToken("ASTERISK") \/ CheckToken("SLASH")
       THEN /\ body' = Emit(body, curToken.text)
            /\ NextToken
            /\ Call("unary", "term_loop")
       ELSE Return /\ UNCHANGED <<lexvars, body>>
  /\ UNCHANGED <<sets, header, err>>

\* unary() ends with the call of primary() and returns when it returns.
Unary ==
  /\ At("unary")
  /\ IF CheckToken("PLUS") \/ CheckToken("MINUS")
       THEN body' = Emit(body, curToken.text) /\ NextToken
       ELSE UNCHANGED <<lexvars, body>>
  /\ Goto("primary")
  /\ UNCHANGED <<sets, header, err>>

Primary ==
  /\ At("primary")
  /\ IF CheckToken("NUMBER")
       THEN /\ body' = Emit(body, curToken.text)
            /\ NextToken
            /\ Return
            /\ UNCHANGED err
       ELSE IF CheckToken("IDENT")
         THEN IF curToken.text \notin symbols
                THEN /\ Abort("Referencing variable before assignment: " \o curToken.text)
                     /\ UNCHANGED body
                ELSE /\ body' = Emit(body, curToken.text)
                     /\ NextToken
                     /\ Return
                     /\ UNCHANGED err
         ELSE /\ Abort("Unpexpected token at " \o curToken.text)
              /\ UNCHANGED body
  /\ UNCHANGED <<sets, header>>

\* ---------------------------------------------------------- specification
Next ==
  \/ Program \/ ProgSkipNl \/ ProgLoop \/ ProgCheck
  \/ StmtYap \/ YapOperand \/ YapClose
  \/ StmtIf \/ IfThen \/ IfOpen \/ IfBody
  \/ StmtCooking \/ CookingSep \/ CookingOpen \/ CookingBody
  \/ StmtLabel \/ LabelIdent
  \/ StmtGoto \/ GotoIdent
  \/ StmtNocap \/ NocapIdent \/ NocapEq \/ NocapClose
  \/ StmtPreach \/ PreachIdent
  \/ StmtInvalid \/ StmtEnd
  \/ Nl \/ NlLoop
  \/ Comparison \/ CmpFirst \/ CmpLoop
  \/ Expression \/ ExprLoop \/ Term \/ TermLoop \/ Unary \/ Primary

Spec == Init /\ [][Next]_vars

\* sys.exit and the return of program() end the run; until then the single
\* thread always takes its next step.
FairSpec == Spec /\ WF_vars(Next)

Done == stack = <<>> /\ err = ""
Aborted == err # ""

\* ------------------------------------------------- helpers of the claims
Range(s) == { s[i] : i \in DOMAIN s }
Last(s) == s[Len(s)]
AllTexts == UNION { { c[i].text : i \in DOMAIN c } : c \in Chunks } \cup {""}

\* Index of the last token of s whose kind is in K, 0 when there is none.
LastIdx(s, K) ==
  LET I == { i \in DOMAIN s : s[i].kind \in K }
  IN IF I = {} THEN 0 ELSE CHOOSE i \in I : \A j \in I : j <= i

\* Texts of the tokens of s after position n.
TextsAfter(s, n) == [ j \in 1..(Len(s) - n) |-> s[n + j].text ]

\* The last n elements of s.
Tail_n(s, n) == SubSeq(s, Len(s) - n + 1, Len(s))

CmpKinds == {"GT", "GTEQ", "LT", "LTEQ", "EQEQ", "NOTEQ"}

\* Position in consumed of the keyword of the statement whose expression is
\* being parsed: expressions occur only in YAP, IF, COOKING and NOCAP, before
\* any nested statement starts.
StmtStart == LastIdx(consumed, {"YAP", "IF", "COOKING", "NOCAP"})

\* v is the target of a NOCAP or PREACH statement that starts before position n.
AssignedBefore(v, n) ==
  \E i \in 1..(n - 1) :
    /\ consumed[i].kind \in {"NOCAP", "PREACH"}
    /\ i + 1 <= Len(consumed)
    /\ consumed[i + 1] = Id(v)

\* ---------------------------------------------------------------------- C1
\* C1: whenever primary() accepts an identifier v, v is the target of a NOCAP
\* or PREACH statement that started strictly before the statement that holds
\* the read (a read in the right-hand side of v's own first NOCAP is a read
\* before assignment).
C1_ReadAfterEarlierAssignment ==
  (At("primary") /\ CheckToken("IDENT") /\ curToken.text \in symbols)
    => AssignedBefore(curToken.text, StmtStart)

\* ---------------------------------------------------------------------- C2
IsGotoErr(e) == e \in { "Attempting to GOTO to undeclared label: " \o l : l \in AllTexts }

C2_OnlyAtEnd ==
  IsGotoErr(err) =>
    /\ Top = "prog_check"
    /\ curToken.kind = "EOF"
    /\ Len(body) >= 2
    /\ Tail_n(body, 2) = <<"return 0;\n", "}\n">>
    /\ \E l \in labelsGotoed \ labelsDeclared :
         err = "Attempting to GOTO to undeclared label: " \o l

C2_DoneSubset == Done => labelsGotoed \subseteq labelsDeclared

C2_Step ==
  /\ (At("goto_ident") /\ CheckToken("IDENT")) => err' = ""
  /\ At("prog_check") => (IsGotoErr(err') <=> ~(labelsGotoed \subseteq labelsDeclared))
  /\ At("prog_check") => (Done' <=> labelsGotoed \subseteq labelsDeclared)

\* C2: label references are validated only at the end of program(): a GOTO
\* of a name not (yet) declared never fails at the GOTO; the undeclared-label
\* failure is raised only with EOF current and the epilogue emitted, and
\* exactly when labelsGotoed is not a subset of labelsDeclared; a successful
\* parse ends with labelsGotoed a subset of labelsDeclared.
C2_LabelsCheckedAtEnd ==
  /\ [](C2_OnlyAtEnd /\ C2_DoneSubset)
  /\ [][C2_Step]_vars

\* A forward reference is accepted: GOTO a, later LABEL a, successful end.
C2_Witness ==
  /\ Done
  /\ \E i, j \in DOMAIN consumed :
       /\ i < j /\ j < Len(consumed)
       /\ consumed[i].kind = "GOTO" /\ consumed[i + 1] = Id("a")
       /\ consumed[j].kind = "LABEL" /\ consumed[j + 1] = Id("a")

\* ---------------------------------------------------------------------- C3
IsLabelErr(e) == e \in { "Label already exists: " \o l : l \in AllTexts }

\* Positions of the LABEL statements that declared name.
LabelDecls(name) ==
  { i \in 1..(Len(consumed) - 1) :
      consumed[i].kind = "LABEL" /\ consumed[i + 1].text = name }

C3_Step ==
  /\ (At("label_ident") /\ curToken.text \in labelsDeclared)
       => err' = "Label already exists: " \o curToken.text
  /\ (At("label_ident") /\ curToken.text \notin labelsDeclared)
       => ~IsLabelErr(err')

C3_Once ==
  /\ \A name \in AllTexts : Cardinality(LabelDecls(name)) <= 1
  /\ Done => labelsDeclared = { name \in AllTexts : LabelDecls(name) # {} }

\* C3: a LABEL whose text is already in labelsDeclared fails with "Label
\* already exists", at top level or nested (one flat namespace); a first
\* declaration never fails with it; in a successful parse every label name
\* was declared by exactly one LABEL statement.
C3_LabelsUnique ==
  /\ []C3_Once
  /\ [][C3_Step]_vars

\* The second declaration sits inside an IF body, the first at top level.
C3_Witness ==
  /\ err = "Label already exists: a"
  /\ \E i \in DOMAIN stack : stack[i] = "if_body"
  /\ LabelDecls("a") # {}
  /\ LabelDecls("a") \subseteq 1..LastIdx(consumed, {"IF"})

\* ---------------------------------------------------------------------- C4
\* C4: the body line appended for GOTO L is the jump "goto L;", keyword and
\* label separated by a blank, so that its target is the L of the line "L:".
C4_GotoLineJumpsToLabel ==
  \A i \in 1..(Len(consumed) - 1) :
    (consumed[i].kind = "GOTO" /\ consumed[i + 1].kind = "IDENT")
      => ("goto " \o consumed[i + 1].text \o ";\n") \in Range(body)

\* ---------------------------------------------------------------------- C5
\* The fragments emitted since the opener are the texts of the tokens
\* consumed since the keyword at position n, one fragment per token, and the
\* fragment before them is the opener.
VerbatimSince(n, opener) ==
  LET k == Len(consumed) - n
  IN /\ Len(body) >= k + 1
     /\ Tail_n(body, k) = TextsAfter(consumed, n)
     /\ body[Len(body) - k] = opener

\* C5: when expression() or comparison() has returned, the fragments it
\* appended to the body are exactly the texts of the tokens it consumed, in
\* source order, one per token, nothing added, dropped or reordered.
C5_EmittedVerbatim ==
  /\ At("if_then") => VerbatimSince(LastIdx(consumed, {"IF"}), "if(")
  /\ At("cooking_sep") => VerbatimSince(LastIdx(consumed, {"COOKING"}), "while(")
  /\ At("yap_close") => VerbatimSince(LastIdx(consumed, {"YAP"}),
                                      "printf(\"%.2f\\n\", (float)(")
  /\ At("nocap_close") =>
       LET n == LastIdx(consumed, {"EQ"})
       IN n >= 2 /\ VerbatimSince(n, consumed[n - 1].text \o " = ")

\* A chained comparison (two operators) and an expression with operators of
\* both precedence levels have been parsed.
C5_Witness ==
  /\ At("if_then")
  /\ LET n == LastIdx(consumed, {"IF"})
     IN Cardinality({ i \in (n + 1)..Len(consumed) : consumed[i].kind \in CmpKinds }) = 2
  /\ \E i \in 1..(Len(body) - 4) :
       SubSeq(body, i, i + 4) = <<"3", "+", "4", "*", "2">>

\* ---------------------------------------------------------------------- C6
C6_Step ==
  /\ (At("cmp_first") /\ ~IsComparisonOperator)
       => err' = "Expected comparison operator at: " \o curToken.text
  /\ (At("cmp_first") /\ IsComparisonOperator) => (err' = "" /\ Top' = "expression")
  /\ (At("cmp_loop") /\ IsComparisonOperator) => (err' = "" /\ Top' = "expression")

C6_GuardHasOperator ==
  (At("if_then") \/ At("cooking_sep")) =>
    \E i \in (LastIdx(consumed, {"IF", "COOKING"}) + 1)..Len(consumed) :
      consumed[i].kind \in CmpKinds

\* C6: in comparison(), a first expression followed by a token that is no
\* comparison operator fails with "Expected comparison operator"; no guard
\* with zero operators is accepted; after the first operator further
\* operator+expression pairs are accepted.
C6_OperatorMandatory ==
  /\ []C6_GuardHasOperator
  /\ [][C6_Step]_vars

\* An IF guarded by a bare expression followed directly by THEN.
C6_Witness ==
  /\ err = "Expected comparison operator at: THEN"
  /\ Top = "cmp_first"
  /\ Len(consumed) >= 2
  /\ consumed[Len(consumed) - 1].kind = "IF"

\* ---------------------------------------------------------------------- C7
BlockOpens == { ") {\n" } \cup { ScanfOpen(v) \o "\n" : v \in AllTexts }

\* Number of blocks open after the first n fragments of b.
RECURSIVE Depth(_, _)
Depth(b, n) ==
  IF n = 0 THEN 0
  ELSE Depth(b, n - 1) + (IF b[n] \in BlockOpens THEN 1
                          ELSE IF b[n] = "}\n" THEN -1 ELSE 0)

ExprTexts ==
  { "1", "2", "3", "4", "a", "b", "+", "-", "*", "/",
    "==", "!=", ">", ">=", "<", "<=" }

\* Every opener is followed by comparison fragments and then ") {", and
\* every ") {" closes such a head.
HeadsWellFormed(b) ==
  /\ \A i \in DOMAIN b :
       b[i] \in {"if(", "while("} =>
         \E j \in (i + 1)..Len(b) :
           /\ b[j] = ") {\n"
           /\ j > i + 1
           /\ \A k \in (i + 1)..(j - 1) : b[k] \in ExprTexts
  /\ \A j \in DOMAIN b :
       b[j] = ") {\n" =>
         \E i \in 1..(j - 1) :
           /\ b[i] \in {"if(", "while("}
           /\ \A k \in (i + 1)..(j - 1) : b[k] \in ExprTexts

BodyFrames == { i \in DOMAIN stack : stack[i] \in {"if_body", "cooking_body"} }

C7_Balanced ==
  /\ (err = "" /\ stack # <<>> /\ stack[1] # "prog_check")
       => Depth(body, Len(body)) = Cardinality(BodyFrames)
  /\ Done =>
       /\ HeadsWellFormed(body)
       /\ \A n \in 0..(Len(body) - 1) : Depth(body, n) >= 0
       /\ Depth(body, Len(body) - 1) = 0
       /\ Last(body) = "}\n"

C7_Step ==
  /\ (At("if_body") /\ CheckToken("ENDIF")) => body' = Append(body, "}\n")
  /\ (At("cooking_body") /\ CheckToken("COOKED")) => body' = Append(body, "}\n")
  /\ At("if_open") => body' = Append(body, ") {\n")
  /\ At("cooking_open") => body' = Append(body, ") {\n")

\* C7: an IF / WHILE with any number of body statements emits the opener,
\* the comparison, ") {", the nested statements and "}" in this order; on a
\* successful parse opening and closing lines of the body are nested and
\* balanced, apart from the final "}" of the entry routine.
C7_BlocksNested ==
  /\ []C7_Balanced
  /\ [][C7_Step]_vars

\* A successful parse with an IF whose body is empty.
C7_Witness ==
  /\ Done
  /\ \E i \in 1..(Len(body) - 1) : body[i] = ") {\n" /\ body[i + 1] = "}\n"
  /\ \E i \in DOMAIN body : body[i] = "if("

\* ---------------------------------------------------------------------- C8
IsInvalidStmtErr(e) ==
  e \in { "Invalid statement at " \o t \o " (NEWLINE)" : t \in AllTexts }

C8_Inv ==
  /\ At("stmt_end") =>
       (consumed # <<>> /\ Last(consumed).kind = "NEWLINE" /\ curToken.kind # "NEWLINE")
  /\ At("statement") => curToken.kind # "NEWLINE"
  /\ ~IsInvalidStmtErr(err)

C8_Step ==
  (At("nl") /\ ~CheckToken("NEWLINE"))
    => err' = "Expected NEWLINE, got " \o curToken.kind

\* C8: every statement is followed by at least one NEWLINE: statement()
\* returns with a NEWLINE consumed last and no NEWLINE current, a statement
\* followed by another token fails with "Expected NEWLINE", and statement()
\* never dispatches on a NEWLINE.
C8_StatementsEndWithNewline ==
  /\ []C8_Inv
  /\ [][C8_Step]_vars

\* A nested statement followed directly by ENDIF.
C8_Witness ==
  /\ err = "Expected NEWLINE, got ENDIF"
  /\ Len(stack) >= 3
  /\ stack[Len(stack) - 1] = "stmt_end"
  /\ stack[Len(stack) - 2] = "if_body"

\* ---------------------------------------------------------------------- C9
\* The texts of the IDENT tokens of the input.
IdentNames ==
  UNION { { c[i].text : i \in { j \in DOMAIN c : c[j].kind = "IDENT" } } : c \in Chunks }
Prologue == <<"#include <stdio.h>\n", "int main(void) {\n">>

\* The body fragments that mention the variable v.
Mentions(v) ==
  { v \o " = ", v \o " = 0;\n", ScanfOpen(v) \o "\n" }
    \cup (IF v \in IdentNames THEN {v} ELSE {})

C9_Inv ==
  /\ (stack # <<>> /\ stack[1] = "program") => (header = <<>> /\ symbols = {})
  /\ ~(stack # <<>> /\ stack[1] = "program") =>
       /\ Len(header) = 2 + Cardinality(symbols)
       /\ SubSeq(header, 1, 2) = Prologue
       /\ { header[i] : i \in 3..Len(header) } = { "float " \o v \o ";\n" : v \in symbols }
  /\ \A v \in AllTexts :
       (Range(body) \cap Mentions(v) # {}) => v \in symbols

C9_Step ==
  /\ symbols \subseteq symbols'
  /\ SubSeq(header', 1, Len(header)) = header

\* C9: the header holds the two prologue lines followed by exactly one line
\* "float v;" per name of the symbol set, whatever the number of NOCAP /
\* PREACH statements that target v; the symbol set only grows; v is declared
\* before a body fragment mentions it.
C9_HeaderDeclaresSymbolsOnce ==
  /\ []C9_Inv
  /\ [][C9_Step]_vars

\* Three statements have targeted the name a.
C9_Witness ==
  /\ symbols = {"a"}
  /\ Cardinality({ i \in 1..(Len(consumed) - 1) :
                     consumed[i].kind \in {"NOCAP", "PREACH"}
                     /\ consumed[i + 1] = Id("a") }) = 3

\* --------------------------------------------------------------------- C10
InOpenBlockAtEOF ==
  /\ err = ""
  /\ curToken.kind = "EOF"
  /\ BodyFrames # {}

C10_Step ==
  /\ Aborted => UNCHANGED vars
  /\ InOpenBlockAtEOF => (InOpenBlockAtEOF' \/ Aborted')

====
